---- MODULE Spec2Model ----
(***************************************************************************)
(* Model of the sample community pack backend plugin (src/backend/plugin.js)*)
(* : the day-keyed number generator generateDailyNumber and the five routes *)
(* registered on the plugin router, over the plugin's isolated table        *)
(* daily_number_scores; and of the DailyNumber component that plays the     *)
(* game against these routes, in its two builds (src/unnamed/part_001 with  *)
(* the platform SDK and Play Again, src/unnamed/part_000 without).          *)
(*                                                                          *)
(* Strings are sequences of UTF-16 code units (what charCodeAt returns).    *)
(* JavaScript numbers that may leave the 32-bit range are carried as a pair *)
(* [hi, lo] with value hi * 2^16 + lo, so that the 32-bit truncation is     *)
(* computed and never assumed.                                              *)
(***************************************************************************)
EXTENDS Integers, Sequences, FiniteSets, Bags, TLC

VARIABLES
    clock,      \* the server's calendar day: new Date() seen through toISOString().split('T')[0]
    store,      \* rows of daily_number_scores in rowid order
    response,   \* the response sent by the request handled last
    pinned,     \* an earlier response kept by an observer, to compare with a later one
    genInput,   \* generateDailyNumber: the argument dateString of the call in progress
    genI,       \* generateDailyNumber: loop index i
    genHash,    \* generateDailyNumber: local hash
    genPc,      \* generateDailyNumber: position of the call ("loop" or "done")
    genResult,  \* generateDailyNumber: how the call ended and what it returned
    variant,    \* DailyNumber: the build that is mounted, "sdk" (Play Again) or "plain"
    ui,         \* DailyNumber: the useState values of the last render
    pending,    \* DailyNumber: the /guess requests awaiting their response, each with
                \* what the handleGuess call that sent it holds in its closure
    submitted,  \* DailyNumber: the bodies of the /submit-score requests sent so far
    guessesSent \* DailyNumber: how many /guess requests have been sent

vars == <<clock, store, response, pinned, genInput, genI, genHash, genPc, genResult,
          variant, ui, pending, submitted, guessesSent>>

backendVars == <<clock, store, response, pinned>>
genVars == <<genInput, genI, genHash, genPc, genResult>>
feVars == <<variant, ui, pending, submitted, guessesSent>>

----------------------------------------------------------------------------
(* Bounds of the exploration *)

\* longest string enumerated over Chars as a generator input
MaxLen == 2
\* longest suffix appended to an extreme-hash prefix
MaxTail == 1

----------------------------------------------------------------------------
(* JavaScript number helpers *)

Min(a, b) == IF a <= b THEN a ELSE b

\* a number as [hi, lo], value hi * 2^16 + lo with lo in 0..2^16-1
Wide(x) == [hi |-> x \div (2^16), lo |-> x % (2^16)]

WideNorm(hi, lo) == [hi |-> hi + (lo \div (2^16)), lo |-> lo % (2^16)]

WideSub(a, b) == WideNorm(a.hi - b.hi, a.lo - b.lo)

WideAdd(a, b) == WideNorm(a.hi + b.hi, a.lo + b.lo)

\* ToInt32: the value modulo 2^32, read as a signed 32-bit integer
ToInt32(w) ==
    LET h == w.hi % (2^16)
    IN  (IF h >= 2^15 THEN h - 2^16 ELSE h) * (2^16) + w.lo

\* hash << 5 on a 32-bit integer: the low 27 bits move up, the result is signed
Shl5(h) ==
    LET l == h % (2^27)
    IN  (IF l >= 2^26 THEN l - 2^27 ELSE l) * 32

\* a remainder that takes the sign of the divisor
JsRemFloored(a, m) == a % m

\* a % m of JavaScript: the remainder takes the sign of the dividend
JsRem(a, m) ==
    LET r == a % m
    IN  IF a < 0 /\ r # 0 THEN r - m ELSE r

MathAbs(x) == IF x < 0 THEN -x ELSE x

----------------------------------------------------------------------------
(* generateDailyNumber *)

\* the loop body adding where the code subtracts: ((hash << 5) + hash) + char
HashStepTimes33(hash, char) ==
    ToInt32(WideAdd(WideAdd(Wide(Shl5(hash)), Wide(hash)), Wide(char)))

\* one iteration of the loop body: hash = ((hash << 5) - hash) + char; hash = hash & hash
HashStep(hash, char) ==
    ToInt32(WideAdd(WideSub(Wide(Shl5(hash)), Wide(hash)), Wide(char)))

\* the range mapping with Math.abs left out
RangeMapNoAbs(hash) == JsRem(hash, 100) + 1

\* return Math.abs(hash % 100) + 1
RangeMap(hash) == MathAbs(JsRem(hash, 100)) + 1

RECURSIVE HashFrom(_, _, _)
\* the for loop from index i (1-based here) with the running hash; the next index and
\* hash are bound as values before the next pass
HashFrom(dateString, i, hash) ==
    IF i > Len(dateString) THEN hash
    ELSE CHOOSE r \in {HashFrom(dateString, j, h) :
                          j \in {i + 1}, h \in {HashStep(hash, dateString[i])}} : TRUE

\* the value of hash after the loop
HashOf(dateString) == CHOOSE r \in {HashFrom(s, 1, 0) : s \in {dateString}} : TRUE

\* a generator that starts its hash from the clock read at the time of the call
GenerateDailyNumberClockSeeded(dateString) == RangeMap(HashFrom(dateString, 1, clock))

generateDailyNumber(dateString) == RangeMap(HashOf(dateString))

----------------------------------------------------------------------------
(* Inputs of the generator *)

\* code units used to build short inputs: NUL, '-', '0', '1', '9', 'z', 0xFFFF
Chars == {0, 45, 48, 49, 57, 122, 65535}

RECURSIVE StringsUpTo(_, _)
StringsUpTo(S, n) ==
    IF n = 0 THEN {<<>>}
    ELSE LET shorter == StringsUpTo(S, n - 1)
         IN  shorter \cup {Append(s, c) : s \in {t \in shorter : Len(t) = n - 1}, c \in S}

\* strings whose hash is an extreme of the 32-bit range or of the remainder:
\* -2^31, 2^31-1, -2^31+1, -1, -99, -100, 99
ExtremePrefixes ==
    { <<2325, 9, 30, 12, 2>>, <<2325, 9, 30, 12, 1>>, <<2325, 9, 30, 12, 3>>,
      <<4650, 19, 29, 24, 3>>, <<4650, 19, 29, 20, 29>>, <<4650, 19, 29, 20, 28>>,
      <<0, 0, 0, 3, 6>> }

\* "2024-01-0" followed by the digit of day d (d in 0..8)
DateKey(d) == <<50, 48, 50, 52, 45, 48, 49, 45, 48, 49 + d>>

GenInputs ==
    StringsUpTo(Chars, MaxLen)
    \cup {p \o t : p \in ExtremePrefixes, t \in StringsUpTo(Chars, MaxTail)}
    \cup {DateKey(d) : d \in 0..2}

NoResult == [outcome |-> "none", value |-> 0]

----------------------------------------------------------------------------
(* generateDailyNumber as a call that runs statement by statement *)

GenInit ==
    /\ genInput \in GenInputs
    /\ genI = 0
    /\ genHash = 0
    /\ genPc = "loop"
    /\ genResult = NoResult

\* lines 196-200: one pass of the for loop
GenLoop ==
    /\ genPc = "loop"
    /\ genI < Len(genInput)
    /\ genHash' = HashStep(genHash, genInput[genI + 1])
    /\ genI' = genI + 1
    /\ UNCHANGED <<genInput, genPc, genResult>>
    /\ UNCHANGED backendVars
    /\ UNCHANGED feVars

\* line 203: the loop condition fails and the function returns
GenReturn ==
    /\ genPc = "loop"
    /\ genI >= Len(genInput)
    /\ genResult' = [outcome |-> "returned", value |-> RangeMap(genHash)]
    /\ genPc' = "done"
    /\ UNCHANGED <<genInput, genI, genHash>>
    /\ UNCHANGED backendVars
    /\ UNCHANGED feVars

----------------------------------------------------------------------------
(* Bounds of the backend exploration *)

\* rows the table may hold before further inserts are left unexplored
MaxStore == 2
\* rows of the largest table the leaderboard is queried on
LbMaxRows == 14
\* rows of the largest table the statistics are queried on
StMaxRows == 5

----------------------------------------------------------------------------
(* JavaScript values of request bodies *)

Undefined == [type |-> "undefined"]
Str(s) == [type |-> "string", chars |-> s]
\* a number, carried in halves: half = 2 * value, so 3 is Num(6) and 1.5 is Num(3)
Num(h) == [type |-> "number", half |-> h]
Bool(b) == [type |-> "boolean", b |-> b]

TypeOf(v) == v.type

\* ToBoolean
Truthy(v) ==
    CASE v.type = "undefined" -> FALSE
      [] v.type = "string" -> v.chars # <<>>
      [] v.type = "number" -> v.half # 0
      [] v.type = "boolean" -> v.b

----------------------------------------------------------------------------
(* The host platform, as the plugin sees it *)

\* user ids of the sessions that send requests
Users == {1, 2}
\* a request without a session
NoUser == 0

\* a middleware that lets every request through
RequireAuthOpen(user) == TRUE

\* context.requireAuth lets the handler run only for a logged-in user
RequireAuth(user) == user # NoUser

\* context.core.getUsernameMap: the users the core knows by name
HasUsername(u) == u % 3 # 0
UsernameOf(u) == IF HasUsername(u) THEN <<"user", u>> ELSE <<"Anonymous">>

\* the days the server's clock passes through
Days == {0, 1}

\* new Date().toISOString().split('T')[0]
Today(day) == DateKey(day)

----------------------------------------------------------------------------
(* daily_number_scores *)

Row(user, date, attempts, won) ==
    [user_id |-> user, date |-> date, attempts |-> attempts, won |-> won]

\* the duplicate check looking at winning rows only
ExistingAmongWins(rows, user, date) ==
    \E i \in 1..Len(rows) :
        rows[i].user_id = user /\ rows[i].date = date /\ rows[i].won = 1

\* SELECT id FROM daily_number_scores WHERE user_id = ? AND date = ?
Existing(rows, user, date) ==
    \E i \in 1..Len(rows) : rows[i].user_id = user /\ rows[i].date = date

RemoveAt(s, i) == SubSeq(s, 1, i - 1) \o SubSeq(s, i + 1, Len(s))

\* the ordering turned around: the row with the most attempts first
PickMost(rows, tie) ==
    CHOOSE i \in 1..Len(rows) :
        \A j \in 1..Len(rows) :
            \/ rows[i].attempts > rows[j].attempts
            \/ rows[i].attempts = rows[j].attempts /\ i <= j

\* the index of a row with the fewest attempts; SQL leaves the order of equal
\* keys open, tie says which end of the rowid order comes first
PickMin(rows, tie) ==
    LET least == {i \in 1..Len(rows) :
                    \A j \in 1..Len(rows) : rows[i].attempts <= rows[j].attempts}
    IN  IF tie = "first"
        THEN CHOOSE i \in least : \A j \in least : i <= j
        ELSE CHOOSE i \in least : \A j \in least : i >= j

RECURSIVE OrderByAttempts(_, _)
\* ORDER BY attempts ASC
OrderByAttempts(rows, tie) ==
    IF rows = <<>> THEN <<>>
    ELSE LET i == PickMin(rows, tie)
         IN  <<rows[i]>> \o OrderByAttempts(RemoveAt(rows, i), tie)

\* LIMIT 10
LeaderboardLimit == 10

Limit(rows, n) == SubSeq(rows, 1, Min(Len(rows), n))

\* the query without its won = 1 condition
LeaderboardQueryAllResults(rows, today, tie) ==
    LET OfToday(r) == r.date = today
    IN  Limit(OrderByAttempts(SelectSeq(rows, OfToday), tie), LeaderboardLimit)

\* SELECT user_id, attempts, won FROM daily_number_scores
\* WHERE date = ? AND won = 1 ORDER BY attempts ASC LIMIT 10
LeaderboardQuery(rows, today, tie) ==
    LET Winning(r) == r.date = today /\ r.won = 1
    IN  Limit(OrderByAttempts(SelectSeq(rows, Winning), tie), LeaderboardLimit)

\* scores.map((s, i) => ({ rank: i + 1, username: ..., attempts: s.attempts }))
LeaderboardEntries(scores) ==
    [i \in 1..Len(scores) |->
        [rank |-> i, username |-> UsernameOf(scores[i].user_id),
         attempts |-> scores[i].attempts]]

----------------------------------------------------------------------------
(* Request payloads explored *)

\* guess: missing, a string, 0, the guesses 33 and 32 (the numbers of 2024-01-01 and
\* 2024-01-02) and 32.5, a number with a fraction
GuessPayloads ==
    {Undefined, Str(<<53, 48>>), Num(0), Num(2 * 33), Num(2 * 32), Num(2 * 33 - 1)}

\* date of a /guess: omitted, empty, a day key, a string whose hash is -2^31
GuessDates ==
    {Undefined, Str(<<>>), Str(<<2325, 9, 30, 12, 2>>)}
    \cup {Str(DateKey(d)) : d \in Days}

\* date of a /submit-score: omitted or a day key
SubmitDates == {Undefined} \cup {Str(DateKey(d)) : d \in Days}

\* attempts and won of a /submit-score: a win in 1, a win in 2, a loss after 1,
\* and a body without attempts
ScorePayloads ==
    { [attempts |-> Num(2), won |-> Bool(TRUE)],
      [attempts |-> Num(4), won |-> Bool(TRUE)],
      [attempts |-> Num(2), won |-> Bool(FALSE)],
      [attempts |-> Undefined, won |-> Bool(TRUE)] }

\* the date strings a handler of this model can pass to generateDailyNumber
DateStrings ==
    {Today(d) : d \in Days}
    \cup {v.chars : v \in {g \in GuessDates \cup SubmitDates : Truthy(g)}}

\* generateDailyNumber on those strings, evaluated once and looked up by the handlers
DailyNumberOf == [dateString \in DateStrings |-> generateDailyNumber(dateString)]

NoResponse == [op |-> "none"]

----------------------------------------------------------------------------
(* router.get('/daily-challenge') *)

\* a handler whose hint tells the parity of the number
DailyChallengeParityHint(day) ==
    LET today == Today(day)
        secretNumber == DailyNumberOf[today]
    IN  [op |-> "daily-challenge", status |-> 200, generatorCalls |-> 1,
         body |-> [date |-> today,
                   hint |-> IF secretNumber % 2 = 0 THEN "The number is even"
                            ELSE "The number is odd",
                   range |-> [min |-> 1, max |-> 100]]]

DailyChallengeHandler(day) ==
    LET today == Today(day)
        secretNumber == DailyNumberOf[today]
    IN  [op |-> "daily-challenge", status |-> 200, generatorCalls |-> 1,
         body |-> [date |-> today,
                   hint |-> "The number is between 1 and 100",
                   range |-> [min |-> 1, max |-> 100]]]

DailyChallenge ==
    /\ response' = DailyChallengeHandler(clock)
    /\ UNCHANGED <<clock, store, pinned>>
    /\ UNCHANGED genVars
    /\ UNCHANGED feVars

----------------------------------------------------------------------------
(* router.post('/guess') *)

\* the two hints the wrong way round
GuessResultSwapped(guess, secretNumber) ==
    IF guess.half = 2 * secretNumber THEN "correct"
    ELSE IF guess.half < 2 * secretNumber THEN "lower"
    ELSE "higher"

\* lines 86-93, guess a number and secretNumber an integer
GuessResult(guess, secretNumber) ==
    IF guess.half = 2 * secretNumber THEN "correct"
    ELSE IF guess.half < 2 * secretNumber THEN "higher"
    ELSE "lower"

\* line 78
GuessRejected(guess) == ~Truthy(guess) \/ TypeOf(guess) # "number"

\* a handler that always plays the server's day
TargetDateAlwaysToday(date, today) == today

\* date || today
TargetDate(date, today) == IF Truthy(date) THEN date.chars ELSE today

\* req is the request body; the response records it with what the handler did
GuessHandler(req, day) ==
    IF GuessRejected(req.guess)
    THEN [op |-> "guess", req |-> req, status |-> 400, generatorCalls |-> 0,
          body |-> [error |-> "Invalid guess"]]
    ELSE LET today == Today(day)
             targetDate == TargetDate(req.date, today)
             secretNumber == DailyNumberOf[targetDate]
         IN  [op |-> "guess", req |-> req, status |-> 200, generatorCalls |-> 1,
              body |-> [guess |-> req.guess,
                        result |-> GuessResult(req.guess, secretNumber),
                        date |-> targetDate]]

Guess ==
    /\ \E guess \in GuessPayloads, date \in GuessDates :
          response' = GuessHandler([guess |-> guess, date |-> date], clock)
    /\ UNCHANGED <<clock, store, pinned>>
    /\ UNCHANGED genVars
    /\ UNCHANGED feVars

----------------------------------------------------------------------------
(* router.post('/submit-score', context.requireAuth, ...) *)

\* a handler that lets a second submission replace the first
SubmitScoreLastWriterWins(user, req, day, rows) ==
    IF ~RequireAuth(user)
    THEN [rows |-> rows,
          response |-> [op |-> "submit-score", req |-> req, user |-> user, status |-> 401,
                        body |-> [error |-> "Unauthorized"]]]
    ELSE LET today == TargetDate(req.date, Today(day))
             row == Row(user, today,
                        IF req.attempts = Undefined THEN 0 ELSE req.attempts.half \div 2,
                        IF Truthy(req.won) THEN 1 ELSE 0)
             Others(r) == ~(r.user_id = user /\ r.date = today)
         IN  [rows |-> Append(SelectSeq(rows, Others), row),
              response |-> [op |-> "submit-score", req |-> req, user |-> user, today |-> today,
                            status |-> 200, body |-> [success |-> TRUE]]]

\* a handler that clears the rows of other days before it inserts
SubmitScoreKeepsOneDay(user, req, day, rows) ==
    IF ~RequireAuth(user)
    THEN [rows |-> rows,
          response |-> [op |-> "submit-score", req |-> req, user |-> user, status |-> 401,
                        body |-> [error |-> "Unauthorized"]]]
    ELSE LET today == TargetDate(req.date, Today(day))
             SameDay(r) == r.date = today
         IN  IF Existing(rows, user, today)
             THEN [rows |-> rows,
                   response |-> [op |-> "submit-score", req |-> req, user |-> user,
                                 today |-> today, status |-> 400,
                                 body |-> [error |-> "Already submitted for today"]]]
             ELSE IF req.attempts = Undefined
             THEN [rows |-> rows,
                   response |-> [op |-> "submit-score", req |-> req, user |-> user,
                                 today |-> today, status |-> 500,
                                 body |-> [error |-> "Internal error"]]]
             ELSE [rows |-> Append(SelectSeq(rows, SameDay),
                                   Row(user, today, req.attempts.half \div 2,
                                       IF Truthy(req.won) THEN 1 ELSE 0)),
                   response |-> [op |-> "submit-score", req |-> req, user |-> user,
                                 today |-> today, status |-> 200,
                                 body |-> [success |-> TRUE]]]

\* the handler's outcome: the table after it and the response, which records the
\* request body, the session's user and the date the score was filed under
SubmitScoreHandler(user, req, day, rows) ==
    IF ~RequireAuth(user)
    THEN [rows |-> rows,
          response |-> [op |-> "submit-score", req |-> req, user |-> user, status |-> 401,
                        body |-> [error |-> "Unauthorized"]]]
    ELSE LET today == TargetDate(req.date, Today(day))
         IN  IF Existing(rows, user, today)
             THEN [rows |-> rows,
                   response |-> [op |-> "submit-score", req |-> req, user |-> user, today |-> today,
                                 status |-> 400,
                                 body |-> [error |-> "Already submitted for today"]]]
             ELSE IF req.attempts = Undefined
             \* attempts INTEGER NOT NULL: the INSERT throws, nothing is written
             THEN [rows |-> rows,
                   response |-> [op |-> "submit-score", req |-> req, user |-> user, today |-> today,
                                 status |-> 500, body |-> [error |-> "Internal error"]]]
             ELSE [rows |-> Append(rows, Row(user, today, req.attempts.half \div 2,
                                             IF Truthy(req.won) THEN 1 ELSE 0)),
                   response |-> [op |-> "submit-score", req |-> req, user |-> user, today |-> today,
                                 status |-> 200, body |-> [success |-> TRUE]]]

SubmitScore ==
    /\ \E user \in Users \cup {NoUser}, score \in ScorePayloads, date \in SubmitDates :
          LET out == SubmitScoreHandler(
                        user,
                        [attempts |-> score.attempts, won |-> score.won, date |-> date],
                        clock, store)
          IN  /\ Len(out.rows) <= MaxStore
              /\ store' = out.rows
              /\ response' = out.response
    /\ UNCHANGED <<clock, pinned>>
    /\ UNCHANGED genVars
    /\ UNCHANGED feVars

----------------------------------------------------------------------------
(* router.get('/leaderboard') *)

LeaderboardHandler(day, rows, tie) ==
    LET today == Today(day)
        scores == LeaderboardQuery(rows, today, tie)
    IN  [op |-> "leaderboard", status |-> 200,
         body |-> [date |-> today, leaderboard |-> LeaderboardEntries(scores)]]

Leaderboard ==
    /\ \E tie \in {"first", "last"} : response' = LeaderboardHandler(clock, store, tie)
    /\ UNCHANGED <<clock, store, pinned>>
    /\ UNCHANGED genVars
    /\ UNCHANGED feVars

----------------------------------------------------------------------------
(* router.get('/my-stats', context.requireAuth, ...) *)

Null == [type |-> "null"]
\* a number with one decimal, carried in tenths
Tenths(n) == [type |-> "number", tenths |-> n]

RECURSIVE SumWon(_)
\* SUM(won)
SumWon(rows) == IF rows = <<>> THEN 0 ELSE Head(rows).won + SumWon(Tail(rows))

RECURSIVE SumAttempts(_)
SumAttempts(rows) == IF rows = <<>> THEN 0 ELSE Head(rows).attempts + SumAttempts(Tail(rows))

\* the aggregate taken over the whole table, without WHERE user_id = ?
StatsQueryAllUsers(rows, user) ==
    LET Won(r) == r.won = 1
        wins == SelectSeq(rows, Won)
    IN  [total_games |-> Len(rows),
         wins |-> IF rows = <<>> THEN Null ELSE Num(2 * SumWon(rows)),
         avg_attempts |-> IF wins = <<>> THEN Null
                          ELSE [sum |-> SumAttempts(wins), count |-> Len(wins)]]

\* SELECT COUNT(*), SUM(won), AVG(CASE WHEN won = 1 THEN attempts END) ... WHERE user_id = ?
StatsQuery(rows, user) ==
    LET Mine(r) == r.user_id = user
        Won(r) == r.won = 1
        mine == SelectSeq(rows, Mine)
        wins == SelectSeq(mine, Won)
    IN  [total_games |-> Len(mine),
         wins |-> IF mine = <<>> THEN Null ELSE Num(2 * SumWon(mine)),
         \* the average as the pair sum, count; NULL over no row
         avg_attempts |-> IF wins = <<>> THEN Null
                          ELSE [sum |-> SumAttempts(wins), count |-> Len(wins)]]

\* Math.round(avg * 10) / 10, in tenths
RoundTenths(avg) == (20 * avg.sum + avg.count) \div (2 * avg.count)

MyStatsHandler(user, rows) ==
    IF ~RequireAuth(user)
    THEN [op |-> "my-stats", user |-> user, status |-> 401,
          body |-> [error |-> "Unauthorized"]]
    ELSE LET stats == StatsQuery(rows, user)
         IN  [op |-> "my-stats", user |-> user, status |-> 200,
              body |-> [totalGames |-> stats.total_games,
                        wins |-> IF stats.wins = Null THEN 0 ELSE stats.wins.half \div 2,
                        avgAttempts |->
                            IF stats.avg_attempts = Null \/ stats.avg_attempts.sum = 0
                            THEN Null
                            ELSE Tenths(RoundTenths(stats.avg_attempts))]]

MyStats ==
    /\ \E user \in Users \cup {NoUser} : response' = MyStatsHandler(user, store)
    /\ UNCHANGED <<clock, store, pinned>>
    /\ UNCHANGED genVars
    /\ UNCHANGED feVars

----------------------------------------------------------------------------
(* The environment *)

\* midnight UTC passes; the exchange of the day before is over
Tick ==
    /\ clock + 1 \in Days
    /\ clock' = clock + 1
    /\ response' = NoResponse
    /\ UNCHANGED <<store, pinned>>
    /\ UNCHANGED genVars
    /\ UNCHANGED feVars

\* an observer keeps an answer to a /guess or /daily-challenge given on day 0 while the
\* table is empty, to hold it against the answers given later
Pin ==
    /\ pinned = NoResponse
    /\ clock = 0
    /\ store = <<>>
    /\ response.op \in {"guess", "daily-challenge"}
    /\ response.status = 200
    /\ pinned' = [op |-> response.op, body |-> response.body]
    /\ UNCHANGED <<clock, store, response>>
    /\ UNCHANGED genVars
    /\ UNCHANGED feVars

----------------------------------------------------------------------------
(* The DailyNumber component *)

\* /guess requests one mounted component sends before no more are explored
MaxGuesses == 3

NaN == [type |-> "number", nan |-> TRUE]

\* a string literal of the component
Text(t) == [type |-> "string", text |-> t]

RECURSIVE DigitsValue(_, _, _)
\* the value of the decimal digits of s from index i on, up to the first other
\* character, acc being the value read so far; NaN when there is no digit at all
DigitsValue(s, i, acc) ==
    IF i <= Len(s) /\ s[i] \in 48..57
    THEN DigitsValue(s, i + 1, 10 * acc + (s[i] - 48))
    ELSE IF i = 1 THEN NaN ELSE Num(2 * acc)

\* parseInt(guess, 10) on the text of the input (no sign, no leading white space)
ParseInt(s) == DigitsValue(s, 1, 0)

\* the texts typed into the input: "", "0", "101", "32", "33", "34", "33.5"
GuessTexts ==
    {<<>>, <<48>>, <<49, 48, 49>>, <<51, 50>>, <<51, 51>>, <<51, 52>>,
     <<51, 51, 46, 53>>}

\* useState initial values; leaderboard and myStats are left out: they are written by
\* the two other fetches of the effect and read by the render only
InitialUi ==
    [challenge |-> Null, guess |-> <<>>, attempts |-> <<>>, gameOver |-> FALSE,
     won |-> FALSE, loading |-> TRUE, error |-> Null]

\* the render shows the game (not the loading or the error screen)
GameShown == ~ui.loading /\ ui.error = Null

\* challenge?.date
ChallengeDate(challenge) == IF challenge = Null THEN Undefined ELSE Str(challenge.date)

\* no component is mounted
FeIdle ==
    /\ variant = "sdk"
    /\ ui = InitialUi
    /\ pending = EmptyBag
    /\ submitted = <<>>
    /\ guessesSent = 0

\* the component has mounted and its effect has sent GET /daily-challenge
FeMounted ==
    /\ variant \in {"sdk", "plain"}
    /\ ui = InitialUi
    /\ pending = EmptyBag
    /\ submitted = <<>>
    /\ guessesSent = 0

\* the effect's .then: setChallenge(data); setLoading(false)
ChallengeLoaded ==
    /\ ui.loading
    /\ ui' = [ui EXCEPT !.challenge = DailyChallengeHandler(clock).body,
                        !.loading = FALSE]
    /\ UNCHANGED <<variant, pending, submitted, guessesSent>>
    /\ UNCHANGED backendVars
    /\ UNCHANGED genVars

\* the effect's .catch: setError(...); setLoading(false)
ChallengeFailed ==
    /\ ui.loading
    /\ ui' = [ui EXCEPT !.error = Text("Failed to load challenge. Is the backend running?"),
                        !.loading = FALSE]
    /\ UNCHANGED <<variant, pending, submitted, guessesSent>>
    /\ UNCHANGED backendVars
    /\ UNCHANGED genVars

\* onChange of the input, shown while the game is on: setGuess(e.target.value)
TypeGuess ==
    /\ GameShown
    /\ ~ui.gameOver
    /\ \E text \in GuessTexts :
          /\ text # ui.guess
          /\ ui' = [ui EXCEPT !.guess = text]
    /\ UNCHANGED <<variant, pending, submitted, guessesSent>>
    /\ UNCHANGED backendVars
    /\ UNCHANGED genVars

\* handleGuess up to its await: the Guess button or Enter, shown while the game is
\* on. The call returns at once on a text that is no number from 1 to 100; otherwise
\* it sends the request and waits, holding the challenge and the attempts of the
\* render it was created in
HandleGuessSend ==
    /\ GameShown
    /\ ~ui.gameOver
    /\ guessesSent < MaxGuesses
    /\ LET numGuess == ParseInt(ui.guess)
       IN  /\ ~(numGuess = NaN \/ numGuess.half < 2 * 1 \/ numGuess.half > 2 * 100)
           /\ pending' = pending (+) SetToBag({[numGuess |-> numGuess,
                                                date |-> ChallengeDate(ui.challenge),
                                                attempts |-> ui.attempts]})
    /\ guessesSent' = guessesSent + 1
    /\ UNCHANGED <<variant, ui, submitted>>
    /\ UNCHANGED backendVars
    /\ UNCHANGED genVars

\* a continuation that sets won on a correct result and leaves gameOver alone
GuessContinuationWonOnly(call, data, now) ==
    LET recorded == [now EXCEPT
                        !.attempts = Append(@, [guess |-> call.numGuess.half \div 2,
                                                result |-> data.result]),
                        !.guess = <<>>]
    IN  IF data.result = "correct"
        THEN [ui |-> [recorded EXCEPT !.won = TRUE],
              sends |-> <<[attempts |-> Len(call.attempts) + 1, won |-> TRUE,
                           date |-> call.date]>>]
        ELSE [ui |-> recorded, sends |-> <<>>]

\* handleGuess after its await, for the call `call` and the response body `data`
\* over the current state `now`: the new state and the /submit-score bodies sent
GuessContinuation(call, data, now) ==
    LET recorded == [now EXCEPT
                        !.attempts = Append(@, [guess |-> call.numGuess.half \div 2,
                                                result |-> data.result]),
                        !.guess = <<>>]
    IN  IF data.result = "correct"
        THEN [ui |-> [recorded EXCEPT !.won = TRUE, !.gameOver = TRUE],
              sends |-> <<[attempts |-> Len(call.attempts) + 1, won |-> TRUE,
                           date |-> call.date]>>]
        ELSE [ui |-> recorded, sends |-> <<>>]

\* the response to one of the requests in flight arrives, in any order
GuessResponse ==
    /\ \E call \in BagToSet(pending) :
          LET data == GuessHandler([guess |-> call.numGuess, date |-> call.date],
                                   clock).body
              out == GuessContinuation(call, data, ui)
          IN  /\ pending' = pending (-) SetToBag({call})
              /\ ui' = out.ui
              /\ submitted' = submitted \o out.sends
    /\ UNCHANGED <<variant, guessesSent>>
    /\ UNCHANGED backendVars
    /\ UNCHANGED genVars

\* the request fails: catch (err) { setError('Failed to submit guess') }
GuessFailed ==
    /\ \E call \in BagToSet(pending) :
          pending' = pending (-) SetToBag({call})
    /\ ui' = [ui EXCEPT !.error = Text("Failed to submit guess")]
    /\ UNCHANGED <<variant, submitted, guessesSent>>
    /\ UNCHANGED backendVars
    /\ UNCHANGED genVars

\* the Give Up button, shown while the game is on
HandleGiveUp ==
    /\ GameShown
    /\ ~ui.gameOver
    /\ ui' = [ui EXCEPT !.gameOver = TRUE, !.won = FALSE]
    /\ UNCHANGED <<variant, pending, submitted, guessesSent>>
    /\ UNCHANGED backendVars
    /\ UNCHANGED genVars

\* the Play Again action of the result screen, in the build that has it
HandlePlayAgain ==
    /\ variant = "sdk"
    /\ GameShown
    /\ ui.gameOver
    /\ ui' = [ui EXCEPT !.attempts = <<>>, !.gameOver = FALSE, !.won = FALSE,
                        !.guess = <<>>]
    /\ UNCHANGED <<variant, pending, submitted, guessesSent>>
    /\ UNCHANGED backendVars
    /\ UNCHANGED genVars

----------------------------------------------------------------------------
(* Specifications *)

GenIdle ==
    /\ genInput = <<>>
    /\ genI = 0
    /\ genHash = 0
    /\ genPc = "idle"
    /\ genResult = NoResult

\* the plugin after register(): migrations have created the empty table
Init ==
    /\ clock = 0
    /\ store = <<>>
    /\ response = NoResponse
    /\ pinned = NoResponse
    /\ GenIdle
    /\ FeIdle

Next ==
    \/ DailyChallenge
    \/ Guess
    \/ SubmitScore
    \/ Leaderboard
    \/ MyStats
    \/ Tick

Spec == Init /\ [][Next]_vars

\* the same plugin watched by an observer that compares two answers; the table is
\* explored one row short of MaxStore
PairSubmitScore == SubmitScore /\ Len(store') < MaxStore

PairNext ==
    \/ DailyChallenge
    \/ Guess
    \/ PairSubmitScore
    \/ Tick
    \/ Pin

PairSpec == Init /\ [][PairNext]_vars

\* the leaderboard over tables of up to LbMaxRows rows, each row of another user:
\* row i has attempts (7 i mod amod) + 1, is a loss when lmod divides i and is filed
\* under day 1 when dmod divides i (lmod, dmod = 0: never)
LbRow(i, amod, lmod, dmod) ==
    Row(i,
        DateKey(IF dmod > 0 /\ i % dmod = 0 THEN 1 ELSE 0),
        ((7 * i) % amod) + 1,
        IF lmod > 0 /\ i % lmod = 0 THEN 0 ELSE 1)

LbStores ==
    { [i \in 1..n |-> LbRow(i, amod, lmod, dmod)] :
        n \in 0..LbMaxRows, amod \in {1, 3, 5}, lmod \in {0, 3, 13}, dmod \in {0, 4, 7} }

LbInit ==
    /\ clock = 0
    /\ store \in LbStores
    /\ response = NoResponse
    /\ pinned = NoResponse
    /\ GenIdle
    /\ FeIdle

LbNext == Leaderboard \/ Tick

LbSpec == LbInit /\ [][LbNext]_vars

\* /my-stats over tables of up to StMaxRows rows of up to three users, one row a day:
\* row i belongs to user 1 + (i mod umod), has attempts (7 i mod amod) + 1 and is a
\* loss when lmod divides i (lmod = 0: never)
StRow(i, umod, amod, lmod) ==
    Row(1 + (i % umod),
        DateKey(i),
        ((7 * i) % amod) + 1,
        IF lmod > 0 /\ i % lmod = 0 THEN 0 ELSE 1)

StStores ==
    { [i \in 1..n |-> StRow(i, umod, amod, lmod)] :
        n \in 0..StMaxRows, umod \in {1, 2, 3}, amod \in {1, 3, 5}, lmod \in {0, 1, 2, 3} }

StInit ==
    /\ clock = 0
    /\ store \in StStores
    /\ response = NoResponse
    /\ pinned = NoResponse
    /\ GenIdle
    /\ FeIdle

StNext == MyStats \/ Tick

StatsSpec == StInit /\ [][StNext]_vars

\* one mounted DailyNumber component, of either build, against the backend of day 0
FeInit ==
    /\ clock = 0
    /\ store = <<>>
    /\ response = NoResponse
    /\ pinned = NoResponse
    /\ GenIdle
    /\ FeMounted

FeNext ==
    \/ ChallengeLoaded
    \/ ChallengeFailed
    \/ TypeGuess
    \/ HandleGuessSend
    \/ GuessResponse
    \/ GuessFailed
    \/ HandleGiveUp
    \/ HandlePlayAgain

FeSpec == FeInit /\ [][FeNext]_vars

\* calls of generateDailyNumber on their own
GenSpecInit ==
    /\ clock = 0
    /\ store = <<>>
    /\ response = NoResponse
    /\ pinned = NoResponse
    /\ GenInit
    /\ FeIdle

GenNext == GenLoop \/ GenReturn

GenSpec == GenSpecInit /\ [][GenNext]_vars

----------------------------------------------------------------------------
(* Properties of generateDailyNumber, under GenSpec *)

\* the most negative 32-bit integer
IntMin32 == -2147483647 - 1

\* a JSON value that is a whole number
IsInteger(v) == v.type = "number" /\ v.half % 2 = 0

\* (h * 31 + c) mod 2^32 read as a signed 32-bit integer, by long multiplication on
\* the two 16-bit halves of h mod 2^32
Times31Plus(h, c) ==
    LET lo == h % (2^16)
        hi == (h \div (2^16)) % (2^16)
        p == lo * 31 + c
        lo2 == p % (2^16)
        hi2 == (hi * 31 + (p \div (2^16))) % (2^16)
    IN  (IF hi2 >= 2^15 THEN hi2 - 2^16 ELSE hi2) * (2^16) + lo2

\* C13 (GenSpec): every pass of the loop of generateDailyNumber leaves in hash the
\* value (previous hash * 31 + character code) mod 2^32 read as a signed 32-bit
\* integer, a value between -2^31 and 2^31 - 1
C13_HashFollowsRecurrence ==
    [][ genI' = genI + 1 =>
            /\ genHash' = Times31Plus(genHash, genInput[genI'])
            /\ genHash' >= IntMin32
            /\ genHash' <= 2147483647 ]_vars

\* the loop is under way on a string whose running hash has wrapped to a negative
\* value and whose last pass added the code unit 65535
C13_Witness ==
    /\ genPc = "loop"
    /\ genI >= 2
    /\ genHash < 0
    /\ genInput[genI] = 65535

\* |h| mod 100 for a signed 32-bit h, with |-2^31| = 2^31 reached through
\* |h| = (-(h + 1)) + 1 so that no intermediate value leaves the 32-bit range
AbsMod100(h) ==
    IF h >= 0 THEN h % 100 ELSE (((-(h + 1)) % 100) + 1) % 100

\* C14 (GenSpec): for every hash the loop can end with, the most negative 32-bit
\* value included, the call returns a value, that value is |hash| mod 100 + 1, and
\* for hash = -2^31 it is the one value 49
C14_RangeMapIsAbsMod ==
    genPc = "done" =>
        /\ genResult.outcome = "returned"
        /\ genResult.value = AbsMod100(genHash) + 1
        /\ genHash = IntMin32 => genResult.value = 49

\* a call has returned 49 for a string whose hash is -2^31, the remainder hash % 100
\* being -48
C14_Witness ==
    /\ genPc = "done"
    /\ genHash = IntMin32
    /\ JsRem(genHash, 100) = -48
    /\ genResult.value = 49

\* C1: every call of generateDailyNumber, whatever the string and however large the
\* running hash becomes, returns an integer r with 1 <= r <= 100
C1_ResultInRange ==
    genPc = "done" =>
        /\ genResult.outcome = "returned"
        /\ genResult.value \in 1..100

\* a call has returned whose hash ended at the most negative 32-bit value
C1_Witness ==
    /\ genPc = "done"
    /\ genHash = IntMin32
    /\ Len(genInput) > 0

\* C7: a call of generateDailyNumber with the empty string ends in an error and
\* returns no value
C7_EmptyDateRejected ==
    (genPc = "done" /\ genInput = <<>>) => genResult.outcome = "threw"

----------------------------------------------------------------------------
(* Properties of /guess and /daily-challenge *)

\* C2 (PairSpec): an accepted /guess with the same guess and the same date as one
\* answered on day 0 over the empty table gets the same result, whatever the clock
\* and the table have become and whatever was requested in between
C2_SameDateSameAnswer ==
    ( /\ pinned.op = "guess"
      /\ response.op = "guess"
      /\ response.status = 200
      /\ response.body.guess = pinned.body.guess
      /\ response.body.date = pinned.body.date )
    => response.body.result = pinned.body.result

\* the same guess for the same date, answered again a day later over a table with a row
C2_Witness ==
    /\ pinned.op = "guess"
    /\ response.op = "guess"
    /\ response.status = 200
    /\ response.body.guess = pinned.body.guess
    /\ response.body.date = pinned.body.date
    /\ pinned.body.result = "correct"
    /\ clock = 1
    /\ store # <<>>

\* C3 (Spec): an accepted /guess with guess g for target date d, s the number generated
\* for d, answers "correct" exactly when g = s, "higher" exactly when g < s and "lower"
\* exactly when g > s
C3_GuessResultMatchesOrder ==
    (response.op = "guess" /\ response.status = 200) =>
        LET g == response.body.guess.half
            s == generateDailyNumber(response.body.date)
            r == response.body.result
        IN  /\ r \in {"correct", "higher", "lower"}
            /\ (r = "correct") <=> (g = 2 * s)
            /\ (r = "higher") <=> (g < 2 * s)
            /\ (r = "lower") <=> (g > 2 * s)

\* the guess of a number with a fraction, above the number of the day named
C3_Witness ==
    /\ response.op = "guess"
    /\ response.status = 200
    /\ response.body.result = "lower"
    /\ response.body.guess.half % 2 = 1
    /\ response.req.date # Undefined

\* C6 (Spec): a /guess whose guess is missing or no integer is answered 400, without a
\* call of the generator and without a result
C6_NonIntegerGuessRejected ==
    (response.op = "guess" /\ ~IsInteger(response.req.guess)) =>
        /\ response.status = 400
        /\ response.generatorCalls = 0
        /\ "result" \notin DOMAIN response.body

\* C8 (PairSpec): the /daily-challenge body has the fields date, hint and range only, and
\* its hint and range are those of the answer given on day 0, whose number is another
C8_ChallengeHidesNumber ==
    response.op = "daily-challenge" =>
        /\ DOMAIN response.body = {"date", "hint", "range"}
        /\ pinned.op = "daily-challenge" =>
              /\ response.body.hint = pinned.body.hint
              /\ response.body.range = pinned.body.range

\* two challenges for two days whose numbers differ
C8_Witness ==
    /\ pinned.op = "daily-challenge"
    /\ response.op = "daily-challenge"
    /\ response.body.date # pinned.body.date
    /\ generateDailyNumber(response.body.date) # generateDailyNumber(pinned.body.date)

----------------------------------------------------------------------------
(* Properties of /submit-score, under Spec *)

\* C4: the table holds at most one row for each pair of user_id and date
C4_OneRecordPerUserDate ==
    \A i, j \in 1..Len(store) :
        (store[i].user_id = store[j].user_id /\ store[i].date = store[j].date) => i = j

\* two rows of one user, and a further submission of that user just refused
C4_Witness ==
    /\ Len(store) = 2
    /\ store[1].user_id = store[2].user_id
    /\ response.op = "submit-score"
    /\ response.status = 400
    /\ response.user = store[1].user_id

HasRecord(rows, user, date) ==
    \E i \in 1..Len(rows) : rows[i].user_id = user /\ rows[i].date = date

\* C5: a /submit-score of a logged-in user for a date under which the table already
\* holds a row of that user is answered 400 and leaves the table as it was
C5_DuplicateRejected ==
    [][ ( /\ response'.op = "submit-score"
          /\ response'.status # 401
          /\ (response' # response \/ store' # store)
          /\ HasRecord(store, response'.user, response'.today) )
        => (response'.status = 400 /\ store' = store) ]_vars

\* a refused second submission, the first row still in the table
C5_Witness ==
    /\ response.op = "submit-score"
    /\ response.status = 400
    /\ HasRecord(store, response.user, response.today)
    /\ Len(store) = 1

----------------------------------------------------------------------------
(* Properties of /leaderboard, under LbSpec *)

WinnersOf(rows, today) ==
    {i \in 1..Len(rows) : rows[i].date = today /\ rows[i].won = 1}

\* C9: the leaderboard has at most 10 entries, in ascending order of attempts, and the
\* entry at position i has rank i
C9_LeaderboardRanked ==
    response.op = "leaderboard" =>
        LET lb == response.body.leaderboard
        IN  /\ Len(lb) <= 10
            /\ \A i \in 1..Len(lb) :
                  /\ lb[i].rank = i
                  /\ i < Len(lb) => lb[i].attempts <= lb[i + 1].attempts

\* a full leaderboard cut from more than 10 winning rows with different attempts
C9_Witness ==
    /\ response.op = "leaderboard"
    /\ Len(response.body.leaderboard) = 10
    /\ Cardinality(WinnersOf(store, Today(clock))) > 10
    /\ response.body.leaderboard[1].attempts < response.body.leaderboard[10].attempts

\* C10: the leaderboard is dated with the server's day; each entry stands for a row of
\* that day with won = 1 (no name and attempts shown more often than stored), and a
\* winning row of that day that is left out has no fewer attempts than any entry
C10_LeaderboardIsTopWinners ==
    response.op = "leaderboard" =>
        LET lb == response.body.leaderboard
            today == Today(clock)
            winners == WinnersOf(store, today)
            Shown(u, a) ==
                Cardinality({k \in 1..Len(lb) : lb[k].username = u /\ lb[k].attempts = a})
            Stored(u, a) ==
                Cardinality({i \in winners : UsernameOf(store[i].user_id) = u
                                              /\ store[i].attempts = a})
        IN  /\ response.body.date = today
            /\ \A k \in 1..Len(lb) :
                  Shown(lb[k].username, lb[k].attempts)
                      <= Stored(lb[k].username, lb[k].attempts)
            /\ \A i \in winners :
                  Shown(UsernameOf(store[i].user_id), store[i].attempts)
                      < Stored(UsernameOf(store[i].user_id), store[i].attempts)
                  => \A k \in 1..Len(lb) : store[i].attempts >= lb[k].attempts

\* a full leaderboard over a table that also holds a loss of the day, a row of another
\* day and a winning row that is left out
C10_Witness ==
    /\ response.op = "leaderboard"
    /\ Len(response.body.leaderboard) = 10
    /\ Cardinality(WinnersOf(store, Today(clock))) > 10
    /\ \E i \in 1..Len(store) : store[i].date = Today(clock) /\ store[i].won = 0
    /\ \E i \in 1..Len(store) : store[i].date # Today(clock)

\* C16 (Spec): an accepted /guess is compared with the number generated for the date
\* of the request body when the body names one, and with the number of the server's
\* day when the date is omitted or empty; the date of the response is that date
C16_GuessUsesRequestedDate ==
    (response.op = "guess" /\ response.status = 200) =>
        LET given == response.req.date
            d == IF given = Undefined \/ given = Str(<<>>) THEN Today(clock)
                 ELSE given.chars
            s == generateDailyNumber(d)
            g == response.body.guess.half
        IN  /\ response.body.date = d
            /\ response.body.result = "correct" <=> g = 2 * s
            /\ response.body.result = "higher" <=> g < 2 * s
            /\ response.body.result = "lower" <=> g > 2 * s

\* on day 0 a guess of 32 for 2024-01-02 has been answered "correct", which it is
\* not for the server's day
C16_Witness ==
    /\ response.op = "guess"
    /\ response.status = 200
    /\ clock = 0
    /\ response.req.date = Str(DateKey(1))
    /\ response.body.guess = Num(2 * 32)
    /\ response.body.result = "correct"
    /\ generateDailyNumber(Today(clock)) # 32

----------------------------------------------------------------------------
(* Properties of the authenticated routes *)

\* C11 (Spec): a step changes the table only when it is a /submit-score of a logged-in
\* session, and the row it adds carries that session's user id; a /submit-score
\* without a session leaves the table as it was
C11_OnlyOwnRecordsPersisted ==
    [][ /\ store' # store =>
            /\ response'.op = "submit-score"
            /\ response'.user \in Users
            /\ Len(store') = Len(store) + 1
            /\ store'[Len(store')].user_id = response'.user
        /\ (response'.op = "submit-score" /\ response'.user = NoUser) =>
            store' = store ]_vars

\* a request without a session has been turned away over a table that holds a row of
\* each user
C11_Witness ==
    /\ response.op = "submit-score"
    /\ response.user = NoUser
    /\ response.status = 401
    /\ \E i, j \in 1..Len(store) : store[i].user_id = 1 /\ store[j].user_id = 2

\* the rows of a user
RecordsOf(rows, user) == {i \in 1..Len(rows) : rows[i].user_id = user}

\* C12 (StatsSpec): an answered /my-stats of user u reports as totalGames the number of
\* u's rows and as wins the number of u's rows with won = 1, rows of other users
\* counting for nothing, and reports avgAttempts null when u has no winning row
C12_StatsCountOwnRecords ==
    (response.op = "my-stats" /\ response.status = 200) =>
        LET mine == RecordsOf(store, response.user)
            wins == {i \in mine : store[i].won = 1}
        IN  /\ response.body.totalGames = Cardinality(mine)
            /\ response.body.wins = Cardinality(wins)
            /\ response.body.wins <= response.body.totalGames
            /\ wins = {} => response.body.avgAttempts = Null

\* statistics of a user with a win and a loss, answered over a table that also holds
\* a win of somebody else
C12_Witness ==
    /\ response.op = "my-stats"
    /\ response.status = 200
    /\ response.body.wins >= 1
    /\ response.body.wins < response.body.totalGames
    /\ \E i \in 1..Len(store) : store[i].user_id # response.user /\ store[i].won = 1

----------------------------------------------------------------------------
(* Frame of the table *)

\* C15 (Spec): every step leaves the table as it was or is a /submit-score answered
\* with success that appends one row, all rows before it kept in place and unchanged,
\* the new row holding the attempts of the request, won as 1 or 0 and the date the
\* request named (the server's day when it named none); /daily-challenge, /guess,
\* /leaderboard, /my-stats and every request not answered with 200 leave the table
\* as it was
C15_StoreAppendOnly ==
    [][ /\ \/ store' = store
           \/ /\ response'.op = "submit-score"
              /\ response'.status = 200
              /\ Len(store') = Len(store) + 1
              /\ SubSeq(store', 1, Len(store)) = store
              /\ LET r == store'[Len(store')]
                     req == response'.req
                 IN  /\ 2 * r.attempts = req.attempts.half
                     /\ r.won = (IF req.won = Bool(TRUE) THEN 1 ELSE 0)
                     /\ r.date = (IF req.date = Undefined THEN Today(clock)
                                  ELSE req.date.chars)
        /\ ( \/ response'.op \in {"daily-challenge", "guess", "leaderboard", "my-stats"}
             \/ (response'.op = "submit-score" /\ response'.status # 200) )
           => store' = store ]_vars

\* a loss filed without a date on day 1 has been appended after a row of day 0
C15_Witness ==
    /\ response.op = "submit-score"
    /\ response.status = 200
    /\ response.req.date = Undefined
    /\ clock = 1
    /\ Len(store) = 2
    /\ store[1].date = Today(0)
    /\ store[2].date = Today(1)
    /\ store[2].won = 0

----------------------------------------------------------------------------
(* Properties of the DailyNumber component, under FeSpec *)

\* C17: whenever the component sends a /submit-score, the attempts of its body is the
\* length of the attempts list as the step leaves it, the winning guess included,
\* whatever the order in which guesses were sent and answered
C17_SubmittedAttemptsMatchList ==
    [][ submitted' # submitted =>
            submitted'[Len(submitted')].attempts = Len(ui'.attempts) ]_vars

\* C18: from a state in which the player has given up (game over, not won) every step
\* other than Play Again leaves the game over and not won and sends no /submit-score
C18_GiveUpStaysLost ==
    [][ (ui.gameOver /\ ~ui.won) =>
            \/ HandlePlayAgain
            \/ /\ ui'.gameOver
               /\ ~ui'.won
               /\ submitted' = submitted ]_vars

\* C19: in every state won implies gameOver; and a step that sends a /submit-score is
\* the arrival of a "correct" answer to a request in flight, sends one body, and that
\* body has won = true
C19_WonImpliesOverAndSubmitOnCorrect ==
    /\ [](ui.won => ui.gameOver)
    /\ [][ submitted' # submitted =>
              /\ BagCardinality(pending') = BagCardinality(pending) - 1
              /\ Len(ui'.attempts) = Len(ui.attempts) + 1
              /\ ui'.attempts[Len(ui'.attempts)].result = "correct"
              /\ Len(submitted') = Len(submitted) + 1
              /\ SubSeq(submitted', 1, Len(submitted)) = submitted
              /\ submitted'[Len(submitted')].won = TRUE ]_vars

\* a game given up has been won after all by the late answer to a guess sent before,
\* its score sent while another guess is still in flight
C19_Witness ==
    /\ ui.won
    /\ ui.gameOver
    /\ Len(submitted) = 1
    /\ Len(ui.attempts) = 1
    /\ guessesSent = 2
    /\ BagCardinality(pending) = 1

====
